---- MODULE Spec2Model ----
(***************************************************************************)
(* Model of app.py: the invoice/payment association engine                 *)
(* (procesar_archivos_excel) and the /process endpoint around it           *)
(* (process_file).                                                         *)
(*                                                                         *)
(* Amounts are integers counted in hundredths of a currency unit, so that  *)
(* INV_AMOUNT * 0.88 is exact: every amount of the input families below is *)
(* a whole number of currency units, for which the floating point          *)
(* comparison of the source and the exact one agree.                       *)
(***************************************************************************)
EXTENDS Integers, Sequences, FiniteSets, TLC

VARIABLES
    solicitud,             \* the upload: file present, file name, what read_excel yields
    columnas,              \* df.columns, "N/A" while df is None
    df,                    \* the rows of the table handed to the core
    facturas,              \* rows with CLASS = INV, with INV_AMOUNT_88 added
    pagos,                 \* rows with CLASS = PMT
    pagos_disponibles_df,  \* the pool of payments still available
    resultados,            \* the output rows appended so far
    i,                     \* position in facturas of the invoice processed next
    pc,                    \* where the program stands
    excepcion,             \* the exception in flight, "None" when there is none
    respuesta,             \* the HTTP response, "None" until one is returned
    llamadas,              \* how many times procesar_archivos_excel was entered
    previa                 \* argument and return value of the previous call

vars == <<solicitud, columnas, df, facturas, pagos, pagos_disponibles_df,
          resultados, i, pc, excepcion, respuesta, llamadas, previa>>

(***************************************************************************)
(* Program constants                                                       *)
(***************************************************************************)
\* tolerancia=1.0, in hundredths
Tolerancia == 100
\* min(6, len(pagos_lista) + 1): r stays below 6
TopeR == 6

required_columns == {"CLASS", "INV_AMOUNT", "CUSTOMER_NAME", "TRX_NUMBER"}

(***************************************************************************)
(* Bounds of the input families                                            *)
(***************************************************************************)
MaxFilas == 3
MaxFacturasFondo == 2
MaxPagos == 6
MaxLlamadas == 2
MaxFilasHttp == 3
MaxPagosPrioridad == 4
MaxPagosBorde == 2
MaxFilasCompartidas == 4

Clientes == {"A", "B"}

(***************************************************************************)
(* Pure helpers                                                            *)
(***************************************************************************)
Abs(x) == IF x < 0 THEN -x ELSE x

Min(a, b) == IF a < b THEN a ELSE b

\* the test with abs() left out
cobertura_sin_abs(monto_pago, monto_objetivo) ==
    monto_pago - monto_objetivo <= Tolerancia

\* Amounts are Python floats (binary doubles).  Among the amounts the input
\* families use, written in hundredths, these are the pairs <<amount, target>>
\* one currency unit apart whose double-precision difference has a magnitude
\* above 1.0: 7.8 - 10 * 0.88 evaluates to -1.0000000000000009.  For every
\* other pair of the families the doubles decide as the hundredths do.
RedondeoBinario == {<<780, 880>>}

es_cobertura_valida(monto_pago, monto_objetivo) ==
    /\ Abs(monto_pago - monto_objetivo) <= Tolerancia
    /\ <<monto_pago, monto_objetivo>> \notin RedondeoBinario

\* facturas['INV_AMOUNT'] * 0.88
Monto88(valor) == (valor * 88) \div 100

\* the two tests in their order; "None" when neither passes
Porcentaje(monto, valor_factura, valor_88) ==
    IF es_cobertura_valida(monto, valor_factura) THEN "100%"
    ELSE IF es_cobertura_valida(monto, valor_88) THEN "88%"
    ELSE "None"

\* df[df['CLASS'] == 'INV'].copy() with the INV_AMOUNT_88 column
SepararFacturas(tabla) ==
    LET inv == SelectSeq(tabla, LAMBDA f : f.CLASS = "INV")
    IN  [k \in 1..Len(inv) |->
            [CLASS |-> inv[k].CLASS, CUSTOMER_NAME |-> inv[k].CUSTOMER_NAME,
             TRX_NUMBER |-> inv[k].TRX_NUMBER, INV_AMOUNT |-> inv[k].INV_AMOUNT,
             INV_AMOUNT_88 |-> Monto88(inv[k].INV_AMOUNT)]]

\* df[df['CLASS'] == 'PMT'].copy()
SepararPagos(tabla) == SelectSeq(tabla, LAMBDA f : f.CLASS = "PMT")

\* the pool without the filter on the customer
pagos_de_todos(pool, cliente) == pool

\* pagos_disponibles_df[pagos_disponibles_df['CUSTOMER_NAME'] == cliente]
pagos_lista(pool, cliente) ==
    SelectSeq(pool, LAMBDA p : p.CUSTOMER_NAME = cliente)

\* the first payment that passes the 100% test when there is one, and only
\* otherwise the first that passes the 88% test
MejorPago(lista, valor_factura, valor_88) ==
    LET al100 == {k \in 1..Len(lista) :
                     es_cobertura_valida(lista[k].INV_AMOUNT, valor_factura)}
        al88  == {k \in 1..Len(lista) :
                     es_cobertura_valida(lista[k].INV_AMOUNT, valor_88)}
    IN  IF al100 # {} THEN CHOOSE k \in al100 : \A j \in al100 : k <= j
        ELSE IF al88 # {} THEN CHOOSE k \in al88 : \A j \in al88 : k <= j
        ELSE 0

\* the last payment that passes a test instead of the first
UltimoPago(lista, valor_factura, valor_88) ==
    LET hits == {k \in 1..Len(lista) :
                    Porcentaje(lista[k].INV_AMOUNT, valor_factura, valor_88) # "None"}
    IN  IF hits = {} THEN 0
        ELSE CHOOSE k \in hits : \A j \in hits : k >= j

\* position of the first payment of lista that passes a test, 0 when none does
PrimerPago(lista, valor_factura, valor_88) ==
    LET hits == {k \in 1..Len(lista) :
                    Porcentaje(lista[k].INV_AMOUNT, valor_factura, valor_88) # "None"}
    IN  IF hits = {} THEN 0
        ELSE CHOOSE k \in hits : \A j \in hits : k <= j

RECURSIVE Ordenar(_)
\* the members of a set of positions, in increasing order
Ordenar(S) ==
    IF S = {} THEN <<>>
    ELSE LET m == CHOOSE x \in S : \A y \in S : x <= y
         IN  <<m>> \o Ordenar(S \ {m})

\* itertools.combinations(range(n), r), as a set of increasing position tuples
Combinaciones(n, r) ==
    {Ordenar(S) : S \in {T \in SUBSET (1..n) : Cardinality(T) = r}}

\* the order in which itertools.combinations yields tuples of one length
LexMenor(a, b) ==
    \E k \in 1..Len(a) :
        /\ a[k] < b[k]
        /\ \A j \in 1..(k - 1) : a[j] = b[j]

RECURSIVE SumaCombo(_, _)
\* sum(p['INV_AMOUNT'] for p in combo)
SumaCombo(lista, combo) ==
    IF combo = <<>> THEN 0
    ELSE lista[Head(combo)].INV_AMOUNT + SumaCombo(lista, Tail(combo))

\* the size limit one too low: range(2, 5) stops at four payments
max_r_corto(lista) == Min(TopeR - 1, Len(lista) + 1)

\* the size limit left out of max_r
max_r_sin_tope(lista) == Len(lista) + 1

\* max_r = min(6, len(pagos_lista) + 1)
max_r(lista) == Min(TopeR, Len(lista) + 1)

CombosValidos(lista, r, valor_factura, valor_88) ==
    {c \in Combinaciones(Len(lista), r) :
        Porcentaje(SumaCombo(lista, c), valor_factura, valor_88) # "None"}

\* the first combination that passes the 100% test when there is one, and only
\* otherwise the first that passes the 88% test
MejorCombo(lista, valor_factura, valor_88) ==
    LET rs      == 2..(max_r(lista) - 1)
        validos == UNION {CombosValidos(lista, r, valor_factura, valor_88) : r \in rs}
        al100   == {c \in validos :
                       es_cobertura_valida(SumaCombo(lista, c), valor_factura)}
        primero(cs) ==
            CHOOSE c \in cs :
                \A d \in cs : \/ c = d
                              \/ Len(c) < Len(d)
                              \/ Len(c) = Len(d) /\ LexMenor(c, d)
    IN  IF al100 # {} THEN primero(al100)
        ELSE IF validos # {} THEN primero(validos)
        ELSE <<>>

\* the first combination the two nested loops reach that passes a test,
\* <<>> when the loops end without one
PrimerCombo(lista, valor_factura, valor_88) ==
    LET rs == {r \in 2..(max_r(lista) - 1) :
                  CombosValidos(lista, r, valor_factura, valor_88) # {}}
    IN  IF rs = {} THEN <<>>
        ELSE LET r  == CHOOSE x \in rs : \A y \in rs : x <= y
                 cs == CombosValidos(lista, r, valor_factura, valor_88)
             IN  CHOOSE c \in cs : \A d \in cs : c = d \/ LexMenor(c, d)

\* one dictionary appended to resultados
Fila(factura, pago, porcentaje) ==
    [Factura_TRX |-> factura.TRX_NUMBER, Cliente |-> factura.CUSTOMER_NAME,
     ValorFactura |-> factura.INV_AMOUNT, Pago_TRX |-> pago.TRX_NUMBER,
     ValorPago |-> pago.INV_AMOUNT, Porcentaje |-> porcentaje]

\* rows put at the front of resultados
AnexarAlFrente(res, filas) == filas \o res

\* resultados.append(...), once per row
Anexar(res, filas) == res \o filas

\* for each collected TRX_NUMBER only the first pool record that carries it removed
EliminarPrimeros(pool, pagos_a_eliminar) ==
    LET quedan == {k \in 1..Len(pool) :
                      \/ pool[k].TRX_NUMBER \notin pagos_a_eliminar
                      \/ \E j \in 1..(k - 1) : pool[j].TRX_NUMBER = pool[k].TRX_NUMBER}
    IN  [j \in 1..Cardinality(quedan) |-> pool[Ordenar(quedan)[j]]]

\* the collected TRX_NUMBERs removed and the last record left moved to the front
EliminarConIntercambio(pool, pagos_a_eliminar) ==
    LET resto == SelectSeq(pool, LAMBDA p : p.TRX_NUMBER \notin pagos_a_eliminar)
    IN  IF resto = pool \/ Len(resto) < 2 THEN resto
        ELSE <<resto[Len(resto)]>> \o SubSeq(resto, 1, Len(resto) - 1)

\* the pool left as it was
EliminarNada(pool, pagos_a_eliminar) == pool

\* only one of the collected TRX_NUMBERs removed
EliminarUno(pool, pagos_a_eliminar) ==
    SelectSeq(pool, LAMBDA p :
        \/ p.TRX_NUMBER \notin pagos_a_eliminar
        \/ \E t \in pagos_a_eliminar : t < p.TRX_NUMBER)

\* pagos_disponibles_df[~pagos_disponibles_df['TRX_NUMBER'].isin(pagos_a_eliminar)]
EliminarPagos(pool, pagos_a_eliminar) ==
    SelectSeq(pool, LAMBDA p : p.TRX_NUMBER \notin pagos_a_eliminar)

\* the rows one iteration of the invoice loop appends
FilasFactura(factura, pool) ==
    LET lista == pagos_lista(pool, factura.CUSTOMER_NAME)
        vf    == factura.INV_AMOUNT
        v88   == factura.INV_AMOUNT_88
        k     == PrimerPago(lista, vf, v88)
        combo == PrimerCombo(lista, vf, v88)
    IN  IF k # 0
        THEN <<Fila(factura, lista[k], Porcentaje(lista[k].INV_AMOUNT, vf, v88))>>
        ELSE [j \in 1..Len(combo) |->
                 Fila(factura, lista[combo[j]],
                      Porcentaje(SumaCombo(lista, combo), vf, v88))]

\* the TRX_NUMBERs one iteration of the invoice loop collects in pagos_a_eliminar
PagosAEliminar(factura, pool) ==
    LET filas == FilasFactura(factura, pool)
    IN  {filas[j].Pago_TRX : j \in 1..Len(filas)}

RECURSIVE Iterar(_, _, _)
\* the invoice loop from the invoices still to come, the pool and the rows so far
Iterar(fs, pool, res) ==
    IF fs = <<>> THEN res
    ELSE Iterar(Tail(fs),
                EliminarPagos(pool, PagosAEliminar(Head(fs), pool)),
                Anexar(res, FilasFactura(Head(fs), pool)))

\* the rows of the DataFrame the function returns for a table
procesar_archivos_excel(tabla) ==
    Iterar(SepararFacturas(tabla), SepararPagos(tabla), <<>>)

(***************************************************************************)
(* Input families: tables the endpoint can hand to the core.  TRX_NUMBER   *)
(* is the row's position, hence unique per record.                         *)
(***************************************************************************)
MontosFactura == {1200, 2200}
MontosPago == {1000, 1200, 2200}

\* rows of either class and either customer, in any interleaving
Formas ==
    [CLASS : {"INV"}, CUSTOMER_NAME : Clientes, INV_AMOUNT : MontosFactura]
    \cup [CLASS : {"PMT"}, CUSTOMER_NAME : Clientes, INV_AMOUNT : MontosPago]

\* the rows of s, each given its position as TRX_NUMBER
Numerar(s) ==
    [k \in 1..Len(s) |->
        [CLASS |-> s[k].CLASS, CUSTOMER_NAME |-> s[k].CUSTOMER_NAME,
         TRX_NUMBER |-> k, INV_AMOUNT |-> s[k].INV_AMOUNT]]

Tablas(formas, n) == {Numerar(s) : s \in [1..n -> formas]}

EntradasMixtas == UNION {Tablas(Formas, n) : n \in 0..MaxFilas}

\* one customer with few invoices and many small payments, so that
\* combinations of every size are searched
FacturasFondo == [CLASS : {"INV"}, CUSTOMER_NAME : {"A"}, INV_AMOUNT : {1700, 3000}]
PagosFondo == [CLASS : {"PMT"}, CUSTOMER_NAME : {"A"}, INV_AMOUNT : {500, 1000}]

EntradasFondo ==
    {Numerar(f \o p) :
        f \in UNION {[1..n -> FacturasFondo] : n \in 1..MaxFacturasFondo},
        p \in UNION {[1..n -> PagosFondo] : n \in 0..MaxPagos}}

\* payments whose TRX_NUMBER repeats, within a customer or across customers;
\* invoices keep a TRX_NUMBER of their own
FormasRepetidas ==
    [CLASS : {"INV"}, CUSTOMER_NAME : Clientes, TRX_NUMBER : {0}, INV_AMOUNT : {1200}]
    \cup [CLASS : {"PMT"}, CUSTOMER_NAME : Clientes, TRX_NUMBER : {1, 2},
          INV_AMOUNT : {600, 1200}]

NumerarFacturas(s) ==
    [k \in 1..Len(s) |->
        [CLASS |-> s[k].CLASS, CUSTOMER_NAME |-> s[k].CUSTOMER_NAME,
         TRX_NUMBER |-> IF s[k].CLASS = "INV" THEN 100 + k ELSE s[k].TRX_NUMBER,
         INV_AMOUNT |-> s[k].INV_AMOUNT]]

EntradasRepetidas ==
    UNION {{NumerarFacturas(s) : s \in [1..n -> FormasRepetidas]} : n \in 0..MaxFilas}

\* an invoice small enough for one payment to pass both tests: 9.00 is within
\* 1.00 of 10.00 and of 8.80
FormasAmbas ==
    [CLASS : {"INV"}, CUSTOMER_NAME : {"A"}, INV_AMOUNT : {1000}]
    \cup [CLASS : {"PMT"}, CUSTOMER_NAME : {"A"}, INV_AMOUNT : {800, 900}]

EntradasAmbas == UNION {Tablas(FormasAmbas, n) : n \in 0..MaxFilas}

\* one invoice of 17.00 and payments among which a single payment, a pair and a
\* triple can each pass a test: 15.00 is within 1.00 of 14.96; 12.00 + 2.00 passes
\* at 88%, 12.00 + 5.00 and 2.00 + 12.00 + 2.00 pass at 100%
PagosPrioridad ==
    [CLASS : {"PMT"}, CUSTOMER_NAME : {"A"}, INV_AMOUNT : {200, 500, 1200, 1500, 1700}]

EntradasPrioridad ==
    {Numerar(<<[CLASS |-> "INV", CUSTOMER_NAME |-> "A", INV_AMOUNT |-> 1700]>> \o p) :
        p \in UNION {[1..n -> PagosPrioridad] : n \in 0..MaxPagosPrioridad}}

\* one invoice and payments that lie at and around the edge of the tolerance:
\* for 25.00, 24.00 and 26.00 are 1.00 from the amount, 21.00 and 23.00 are
\* 1.00 from 22.00, 26.01 and 20.99 are 1.01 away; for 10.00, 7.80 and
\* 3.90 + 3.90 are 1.00 from 8.80, and 4.50 + 4.50 is 1.00 from the amount
FacturasBorde == [CLASS : {"INV"}, CUSTOMER_NAME : {"A"}, INV_AMOUNT : {1000, 2500}]
PagosBorde ==
    [CLASS : {"PMT"}, CUSTOMER_NAME : {"A"},
     INV_AMOUNT : {390, 450, 780, 2099, 2100, 2300, 2400, 2600, 2601}]

EntradasBorde ==
    {Numerar(<<f>> \o p) :
        f \in FacturasBorde,
        p \in UNION {[1..n -> PagosBorde] : n \in 0..MaxPagosBorde}}

\* two customers whose payments carry one and the same TRX_NUMBER
FormasCompartidas ==
    [CLASS : {"INV"}, CUSTOMER_NAME : Clientes, TRX_NUMBER : {0}, INV_AMOUNT : {1200}]
    \cup [CLASS : {"PMT"}, CUSTOMER_NAME : Clientes, TRX_NUMBER : {1},
          INV_AMOUNT : {1200}]

EntradasCompartidas ==
    UNION {{NumerarFacturas(s) : s \in [1..n -> FormasCompartidas]} :
              n \in 0..MaxFilasCompartidas}

\* rows of a third class, a credit memo, next to an invoice and payments of two
\* customers
FormasOtras ==
    [CLASS : {"INV", "PMT", "CM"}, CUSTOMER_NAME : {"A"}, INV_AMOUNT : {1200}]
    \cup [CLASS : {"PMT"}, CUSTOMER_NAME : {"B"}, INV_AMOUNT : {1200}]

EntradasOtras == UNION {Tablas(FormasOtras, n) : n \in 0..MaxFilas}

Entradas ==
    EntradasMixtas \cup EntradasFondo \cup EntradasRepetidas \cup EntradasAmbas
    \cup EntradasPrioridad \cup EntradasCompartidas \cup EntradasOtras

SinRespuesta == [status |-> 0, error |-> "None", faltantes |-> {}, columnas |-> {}]

SinExcepcion == [tipo |-> "None", origen |-> "None", faltantes |-> {}]

\* df.columns while df is None
NA == {"N/A"}

\* an INV_AMOUNT cell that holds text instead of a number
NoNumerico == -1

\* position of the first payment of the list whose amount is not a number, or 0
PrimerNoNumerico(lista) ==
    LET malos == {k \in 1..Len(lista) : lista[k].INV_AMOUNT = NoNumerico}
    IN  IF malos = {} THEN 0 ELSE CHOOSE k \in malos : \A j \in malos : k <= j

(***************************************************************************)
(* procesar_archivos_excel                                                 *)
(***************************************************************************)
\* a pool kept from one call to the next
InicioPoolGlobal ==
    pagos_disponibles_df' =
        IF llamadas = 0 THEN SepararPagos(df) ELSE pagos_disponibles_df

\* pagos_disponibles_df = pagos.copy(): a pool built from this call's table
InicioPool == pagos_disponibles_df' = SepararPagos(df)

\* entry of the function up to the invoice loop; df['CLASS'] raises KeyError
\* when the column is absent, and facturas['INV_AMOUNT'] * 0.88 raises
\* TypeError when an invoice amount is not a number
Separar ==
    /\ pc = "core"
    /\ llamadas' = llamadas + 1
    /\ IF ~(required_columns \subseteq columnas)
       THEN /\ excepcion' = [tipo |-> "KeyError", origen |-> "core", faltantes |-> {}]
            /\ pc' = "except"
            /\ UNCHANGED <<facturas, pagos, resultados, pagos_disponibles_df, i>>
       ELSE IF \E k \in 1..Len(df) :
                   df[k].CLASS = "INV" /\ df[k].INV_AMOUNT = NoNumerico
       THEN /\ excepcion' = [tipo |-> "TypeError", origen |-> "core", faltantes |-> {}]
            /\ pc' = "except"
            /\ UNCHANGED <<facturas, pagos, resultados, pagos_disponibles_df, i>>
       ELSE /\ facturas' = SepararFacturas(df)
            /\ pagos' = SepararPagos(df)
            /\ resultados' = <<>>
            /\ InicioPool
            /\ i' = 1
            /\ pc' = "loop"
            /\ UNCHANGED excepcion
    /\ UNCHANGED <<solicitud, columnas, df, respuesta, previa>>

\* what one iteration does to resultados and to the pool when it found a match
Consumir ==
    /\ resultados' = Anexar(resultados, FilasFactura(facturas[i], pagos_disponibles_df))
    /\ pagos_disponibles_df' =
           EliminarPagos(pagos_disponibles_df,
                         PagosAEliminar(facturas[i], pagos_disponibles_df))
    /\ i' = i + 1
    /\ UNCHANGED <<solicitud, columnas, df, facturas, pagos, pc, excepcion,
                   respuesta, llamadas, previa>>

EnBucle == pc = "loop" /\ i <= Len(facturas)

ListaActual == pagos_lista(pagos_disponibles_df, facturas[i].CUSTOMER_NAME)

HayUnPago ==
    PrimerPago(ListaActual, facturas[i].INV_AMOUNT, facturas[i].INV_AMOUNT_88) # 0

HayCombo ==
    PrimerCombo(ListaActual, facturas[i].INV_AMOUNT, facturas[i].INV_AMOUNT_88) # <<>>

\* the single-payment loop reaches a payment whose amount is not a number
\* before it reaches one that passes a test
HayNoNumerico ==
    LET malo  == PrimerNoNumerico(ListaActual)
        bueno == PrimerPago(ListaActual, facturas[i].INV_AMOUNT,
                            facturas[i].INV_AMOUNT_88)
    IN  malo # 0 /\ (bueno = 0 \/ malo < bueno)

\* an iteration that ends in the single-payment loop
CoincidenciaUnPago ==
    /\ EnBucle
    /\ ~HayNoNumerico
    /\ HayUnPago
    /\ Consumir

\* an iteration that ends in the combination loops with a match
CoincidenciaCombinacion ==
    /\ EnBucle
    /\ ~HayNoNumerico
    /\ ~HayUnPago
    /\ HayCombo
    /\ Consumir

\* an iteration that finds nothing: encontrada stays False
SinCoincidencia ==
    /\ EnBucle
    /\ ~HayNoNumerico
    /\ ~HayUnPago
    /\ ~HayCombo
    /\ i' = i + 1
    /\ UNCHANGED <<solicitud, columnas, df, facturas, pagos, pagos_disponibles_df,
                   resultados, pc, excepcion, respuesta, llamadas, previa>>

\* abs(monto_pago - valor_factura) raises TypeError on an amount that is not
\* a number
FallaUnPago ==
    /\ EnBucle
    /\ HayNoNumerico
    /\ excepcion' = [tipo |-> "TypeError", origen |-> "core", faltantes |-> {}]
    /\ pc' = "except"
    /\ UNCHANGED <<solicitud, columnas, df, facturas, pagos, pagos_disponibles_df,
                   resultados, i, respuesta, llamadas, previa>>

\* return df_resultado
Devolver ==
    /\ pc = "loop"
    /\ i > Len(facturas)
    /\ pc' = "returned"
    /\ UNCHANGED <<solicitud, columnas, df, facturas, pagos, pagos_disponibles_df,
                   resultados, i, excepcion, respuesta, llamadas, previa>>

\* the table with its invoice rows in reverse order, every other row in place
InvertirFacturas(tabla) ==
    LET pos == Ordenar({k \in 1..Len(tabla) : tabla[k].CLASS = "INV"})
        n   == Len(pos)
        rango(k) == CHOOSE j \in 1..n : pos[j] = k
    IN  [k \in 1..Len(tabla) |->
            IF tabla[k].CLASS = "INV" THEN tabla[pos[n + 1 - rango(k)]] ELSE tabla[k]]

\* a later request calls the function again, on the same table or on the
\* table with its invoices re-ordered
Reinvocar ==
    /\ pc = "returned"
    /\ llamadas < MaxLlamadas
    /\ previa' = <<[df |-> df, resultados |-> resultados]>>
    /\ \E t \in {df, InvertirFacturas(df)} : df' = t
    /\ pc' = "core"
    /\ UNCHANGED <<solicitud, columnas, facturas, pagos, pagos_disponibles_df,
                   resultados, i, excepcion, respuesta, llamadas>>

NextCore ==
    \/ Separar
    \/ CoincidenciaUnPago
    \/ CoincidenciaCombinacion
    \/ SinCoincidencia
    \/ Devolver

InitCore(entradas) ==
    /\ df \in entradas
    /\ solicitud = [archivo |-> TRUE, filename |-> "datos.xlsx", lectura |-> "tabla",
                    columnas |-> required_columns, filas |-> df]
    /\ columnas = required_columns
    /\ facturas = <<>>
    /\ pagos = <<>>
    /\ pagos_disponibles_df = <<>>
    /\ resultados = <<>>
    /\ i = 1
    /\ pc = "core"
    /\ excepcion = SinExcepcion
    /\ respuesta = SinRespuesta
    /\ llamadas = 0
    /\ previa = <<>>

\* one call of procesar_archivos_excel on a table with the required columns
Init == InitCore(Entradas)

Spec == Init /\ [][NextCore]_vars

\* successive calls of procesar_archivos_excel, as successive requests make them
InitDos == InitCore(EntradasMixtas)

NextDos == NextCore \/ Reinvocar

SpecDos == InitDos /\ [][NextDos]_vars

\* one call of procesar_archivos_excel on amounts at the edge of the tolerance
InitBorde == InitCore(EntradasBorde)

SpecBorde == InitBorde /\ [][NextCore]_vars

(***************************************************************************)
(* process_file                                                            *)
(***************************************************************************)
Responder(status, error, faltantes, cols) ==
    /\ respuesta' = [status |-> status, error |-> error,
                     faltantes |-> faltantes, columnas |-> cols]
    /\ pc' = "fin"

\* the three early returns before the try block
ValidarSolicitud ==
    /\ pc = "request"
    /\ IF ~solicitud.archivo
       THEN Responder(400, "sin_archivo", {}, {})
       ELSE IF solicitud.filename = ""
       THEN Responder(400, "sin_nombre", {}, {})
       ELSE IF solicitud.filename \notin {"datos.xlsx", "datos.xls"}
       THEN Responder(400, "formato_no_soportado", {}, {})
       ELSE /\ pc' = "read"
            /\ UNCHANGED respuesta
    /\ UNCHANGED <<solicitud, columnas, df, facturas, pagos, pagos_disponibles_df,
                   resultados, i, excepcion, llamadas, previa>>

\* df = pd.read_excel(file_stream): a table, or an exception of the library
LeerExcel ==
    /\ pc = "read"
    /\ IF solicitud.lectura = "tabla"
       THEN /\ df' = solicitud.filas
            /\ columnas' = solicitud.columnas
            /\ pc' = "check"
            /\ UNCHANGED excepcion
       ELSE /\ excepcion' = [tipo |-> solicitud.lectura, origen |-> "read_excel",
                             faltantes |-> {}]
            /\ pc' = "except"
            /\ UNCHANGED <<df, columnas>>
    /\ UNCHANGED <<solicitud, facturas, pagos, pagos_disponibles_df, resultados, i,
                   respuesta, llamadas, previa>>

\* the column check finding nothing
sin_verificar == {}

\* [col for col in required_columns if col not in df.columns]
missing_columns == required_columns \ columnas

\* the column check: raise KeyError, or go on to call the core
VerificarColumnas ==
    /\ pc = "check"
    /\ IF missing_columns # {}
       THEN /\ excepcion' = [tipo |-> "KeyError", origen |-> "columnas",
                             faltantes |-> missing_columns]
            /\ pc' = "except"
       ELSE /\ pc' = "core"
            /\ UNCHANGED excepcion
    /\ UNCHANGED <<solicitud, columnas, df, facturas, pagos, pagos_disponibles_df,
                   resultados, i, respuesta, llamadas, previa>>

\* the ExcelWriter block and send_file: the result file, or a failure of the writer
EscribirResultado ==
    /\ pc = "returned"
    /\ \E falla \in BOOLEAN :
          IF falla
          THEN /\ excepcion' = [tipo |-> "Exception", origen |-> "writer",
                                faltantes |-> {}]
               /\ pc' = "except"
               /\ UNCHANGED respuesta
          ELSE /\ Responder(200, "None", {}, {})
               /\ UNCHANGED excepcion
    /\ UNCHANGED <<solicitud, columnas, df, facturas, pagos, pagos_disponibles_df,
                   resultados, i, llamadas, previa>>

\* except KeyError: the message carries the exception text and the columns found
ManejarKeyError ==
    /\ pc = "except"
    /\ excepcion.tipo = "KeyError"
    /\ Responder(400, "formato", excepcion.faltantes, columnas)
    /\ UNCHANGED <<solicitud, columnas, df, facturas, pagos, pagos_disponibles_df,
                   resultados, i, excepcion, llamadas, previa>>

\* except EmptyDataError
ManejarEmptyDataError ==
    /\ pc = "except"
    /\ excepcion.tipo = "EmptyDataError"
    /\ Responder(400, "vacio", {}, {})
    /\ UNCHANGED <<solicitud, columnas, df, facturas, pagos, pagos_disponibles_df,
                   resultados, i, excepcion, llamadas, previa>>

\* except Exception
ManejarException ==
    /\ pc = "except"
    /\ excepcion.tipo \notin {"KeyError", "EmptyDataError"}
    /\ Responder(500, "inesperado", {}, {})
    /\ UNCHANGED <<solicitud, columnas, df, facturas, pagos, pagos_disponibles_df,
                   resultados, i, excepcion, llamadas, previa>>

\* what an upload can be
FormasHttp ==
    [CLASS : {"INV"}, CUSTOMER_NAME : {"A"}, INV_AMOUNT : {1200}]
    \cup [CLASS : {"PMT"}, CUSTOMER_NAME : {"A"}, INV_AMOUNT : {600, 1200}]

TablasHttp == UNION {Tablas(FormasHttp, n) : n \in 0..MaxFilasHttp}

Solicitudes ==
    [archivo : {FALSE}, filename : {""}, lectura : {"Exception"},
     columnas : {{}}, filas : {<<>>}]
    \cup [archivo : {TRUE}, filename : {"", "datos.csv"}, lectura : {"Exception"},
          columnas : {{}}, filas : {<<>>}]
    \cup [archivo : {TRUE}, filename : {"datos.xlsx", "datos.xls"},
          lectura : {"Exception", "EmptyDataError"},
          columnas : {{}}, filas : {<<>>}]
    \cup [archivo : {TRUE}, filename : {"datos.xlsx", "datos.xls"},
          lectura : {"tabla"},
          columnas : SUBSET required_columns, filas : TablasHttp]

InitHttp ==
    /\ solicitud \in Solicitudes
    /\ columnas = NA
    /\ df = <<>>
    /\ facturas = <<>>
    /\ pagos = <<>>
    /\ pagos_disponibles_df = <<>>
    /\ resultados = <<>>
    /\ i = 1
    /\ pc = "request"
    /\ excepcion = SinExcepcion
    /\ respuesta = SinRespuesta
    /\ llamadas = 0
    /\ previa = <<>>

NextHttp ==
    \/ ValidarSolicitud
    \/ LeerExcel
    \/ VerificarColumnas
    \/ NextCore
    \/ EscribirResultado
    \/ ManejarKeyError
    \/ ManejarEmptyDataError
    \/ ManejarException

SpecHttp == InitHttp /\ [][NextHttp]_vars

\* uploads that make the library or the core fail: a workbook the reader
\* rejects with a KeyError of its own (a part missing from the archive), and
\* tables with the required columns whose amounts are text
FormasFallas ==
    FormasHttp
    \cup [CLASS : {"INV", "PMT"}, CUSTOMER_NAME : {"A"}, INV_AMOUNT : {NoNumerico}]

SolicitudesFallas ==
    Solicitudes
    \cup [archivo : {TRUE}, filename : {"datos.xlsx"}, lectura : {"KeyError"},
          columnas : {{}}, filas : {<<>>}]
    \cup [archivo : {TRUE}, filename : {"datos.xlsx"}, lectura : {"tabla"},
          columnas : {required_columns},
          filas : UNION {Tablas(FormasFallas, n) : n \in 0..MaxFilasHttp}]

InitFallas ==
    /\ solicitud \in SolicitudesFallas
    /\ columnas = NA
    /\ df = <<>>
    /\ facturas = <<>>
    /\ pagos = <<>>
    /\ pagos_disponibles_df = <<>>
    /\ resultados = <<>>
    /\ i = 1
    /\ pc = "request"
    /\ excepcion = SinExcepcion
    /\ respuesta = SinRespuesta
    /\ llamadas = 0
    /\ previa = <<>>

NextFallas ==
    \/ NextHttp
    \/ FallaUnPago

\* one request, with every way the try block can fail
SpecFallas == InitFallas /\ [][NextFallas]_vars

(***************************************************************************)
(* Properties                                                              *)
(***************************************************************************)
\* the core has been entered and its locals are those of the call
EnCurso == pc \in {"loop", "returned"}

TrxUnicos(tabla) ==
    \A a, b \in 1..Len(tabla) : a # b => tabla[a].TRX_NUMBER # tabla[b].TRX_NUMBER

\* |monto - valor| <= 1.00
Dentro100(monto, valor) == (monto - valor) \in -100..100

\* |monto - 0.88 * valor| <= 1.00
Dentro88(monto, valor) == (100 * monto - 88 * valor) \in -10000..10000

\* the output rows of the invoice with TRX_NUMBER t
FilasDe(t) == SelectSeq(resultados, LAMBDA f : f.Factura_TRX = t)

RECURSIVE SumaValorPago(_)
SumaValorPago(filas) ==
    IF filas = <<>> THEN 0 ELSE Head(filas).ValorPago + SumaValorPago(Tail(filas))

RECURSIVE SumaMontos(_, _)
\* the sum of the amounts of lista at the positions in S
SumaMontos(lista, S) ==
    IF S = {} THEN 0
    ELSE LET k == CHOOSE x \in S : TRUE
         IN  lista[k].INV_AMOUNT + SumaMontos(lista, S \ {k})

\* C1: with TRX_NUMBER unique per record, after any prefix of the invoices no
\* payment TRX_NUMBER is the Pago_TRX of two output rows.
C1_PagoUnaSolaVez ==
    (EnCurso /\ TrxUnicos(df)) =>
        \A a, b \in 1..Len(resultados) :
            a # b => resultados[a].Pago_TRX # resultados[b].Pago_TRX

\* C1 witness: two invoices of one customer are matched, and the payments of
\* the earlier one would have passed a test of the later one
C1_Witness ==
    /\ pc = "returned"
    /\ TrxUnicos(df)
    /\ \E j, k \in 1..Len(facturas) :
          LET suma == SumaValorPago(FilasDe(facturas[j].TRX_NUMBER))
          IN  /\ j < k
              /\ facturas[j].CUSTOMER_NAME = facturas[k].CUSTOMER_NAME
              /\ FilasDe(facturas[j].TRX_NUMBER) # <<>>
              /\ FilasDe(facturas[k].TRX_NUMBER) # <<>>
              /\ \/ Dentro100(suma, facturas[k].INV_AMOUNT)
                 \/ Dentro88(suma, facturas[k].INV_AMOUNT)

\* C2: the rows of one invoice carry one label, and their ValorPago sum is
\* within 1.00 of the invoice amount under "100%", of 0.88 times it under "88%".
C2_CoberturaCorrecta ==
    EnCurso =>
        \A k \in 1..Len(facturas) :
            LET filas == FilasDe(facturas[k].TRX_NUMBER)
                suma  == SumaValorPago(filas)
            IN  filas # <<>> =>
                    \/ /\ \A j \in 1..Len(filas) : filas[j].Porcentaje = "100%"
                       /\ Dentro100(suma, facturas[k].INV_AMOUNT)
                    \/ /\ \A j \in 1..Len(filas) : filas[j].Porcentaje = "88%"
                       /\ Dentro88(suma, facturas[k].INV_AMOUNT)

\* C2 witness: one invoice settled by several payments at 88%, another at 100%
C2_Witness ==
    /\ pc = "returned"
    /\ \E a, b \in 1..Len(resultados) :
          /\ a # b
          /\ resultados[a].Factura_TRX = resultados[b].Factura_TRX
          /\ resultados[a].Porcentaje = "88%"
    /\ \E c \in 1..Len(resultados) : resultados[c].Porcentaje = "100%"

\* the sets of at most n positions of lista whose amounts sum within
\* tolerance of either target of an invoice of amount valor
SubconjuntosValidos(lista, valor, n) ==
    {S \in SUBSET (1..Len(lista)) :
        /\ Cardinality(S) \in 1..n
        /\ \/ Dentro100(SumaMontos(lista, S), valor)
           \/ Dentro88(SumaMontos(lista, S), valor)}

\* C4: an iteration appends at most 5 rows, so no invoice has more than 5, and
\* it appends none when no set of at most 5 of the customer's available
\* payments sums within tolerance of a target.
C4_BusquedaAcotada ==
    [][EnBucle =>
        /\ Len(resultados') - Len(resultados) \in 0..5
        /\ \A k \in 1..Len(facturas) :
               Len(SelectSeq(resultados',
                             LAMBDA f : f.Factura_TRX = facturas[k].TRX_NUMBER)) \in 0..5
        /\ SubconjuntosValidos(ListaActual, facturas[i].INV_AMOUNT, 5) = {} =>
               resultados' = resultados]_vars

\* C4 witness: an invoice without rows although six or more payments still in
\* the pool sum exactly to its amount
C4_Witness ==
    /\ pc = "returned"
    /\ \E k \in 1..Len(facturas) :
          LET lista == pagos_lista(pagos_disponibles_df, facturas[k].CUSTOMER_NAME)
          IN  /\ FilasDe(facturas[k].TRX_NUMBER) = <<>>
              /\ \E S \in SUBSET (1..Len(lista)) :
                    /\ Cardinality(S) >= 6
                    /\ SumaMontos(lista, S) = facturas[k].INV_AMOUNT

\* the TRX_NUMBERs that appear as Pago_TRX in the rows res
PagosUsados(res) == {res[j].Pago_TRX : j \in 1..Len(res)}

\* a is b with some members removed and the others in place
EsSubsecuencia(a, b) ==
    \E S \in SUBSET (1..Len(b)) :
        a = [j \in 1..Cardinality(S) |-> b[Ordenar(S)[j]]]

\* C5: the pool starts as the PMT rows; an iteration only removes from it, and
\* removes nothing and appends nothing when the invoice ends unmatched; with
\* unique TRX_NUMBER the pool is the PMT rows minus those named in the output.
C5_PoolSoloDecrece ==
    [][/\ (pc = "core" /\ pc' = "loop") =>
              pagos_disponibles_df' = SelectSeq(df, LAMBDA f : f.CLASS = "PMT")
       /\ EnBucle =>
              /\ EsSubsecuencia(pagos_disponibles_df', pagos_disponibles_df)
              /\ resultados' = resultados => pagos_disponibles_df' = pagos_disponibles_df
       /\ (EnCurso' /\ TrxUnicos(df)) =>
              pagos_disponibles_df' =
                  SelectSeq(SelectSeq(df, LAMBDA f : f.CLASS = "PMT"),
                            LAMBDA p : p.TRX_NUMBER \notin PagosUsados(resultados'))]_vars

\* C5 witness: an invoice left unmatched whose customer's payment, consumed by
\* an earlier invoice, would have passed a test
C5_Witness ==
    /\ pc = "returned"
    /\ TrxUnicos(df)
    /\ \E k \in 1..Len(facturas) :
          /\ FilasDe(facturas[k].TRX_NUMBER) = <<>>
          /\ \E a \in 1..Len(resultados) :
                /\ resultados[a].Cliente = facturas[k].CUSTOMER_NAME
                /\ \E j \in 1..(k - 1) :
                      facturas[j].TRX_NUMBER = resultados[a].Factura_TRX
                /\ \/ Dentro100(resultados[a].ValorPago, facturas[k].INV_AMOUNT)
                   \/ Dentro88(resultados[a].ValorPago, facturas[k].INV_AMOUNT)

\* a payment available to the invoice in turn passes the 100% test
Hay100 ==
    \E k \in 1..Len(ListaActual) :
        Dentro100(ListaActual[k].INV_AMOUNT, facturas[i].INV_AMOUNT)

\* a payment available to the invoice in turn passes the 88% test
Hay88 ==
    \E k \in 1..Len(ListaActual) :
        Dentro88(ListaActual[k].INV_AMOUNT, facturas[i].INV_AMOUNT)

\* the first position of the available payments that passes either test
PrimeroQuePasa ==
    CHOOSE k \in 1..Len(ListaActual) :
        /\ \/ Dentro100(ListaActual[k].INV_AMOUNT, facturas[i].INV_AMOUNT)
           \/ Dentro88(ListaActual[k].INV_AMOUNT, facturas[i].INV_AMOUNT)
        /\ \A j \in 1..(k - 1) :
              /\ ~Dentro100(ListaActual[j].INV_AMOUNT, facturas[i].INV_AMOUNT)
              /\ ~Dentro88(ListaActual[j].INV_AMOUNT, facturas[i].INV_AMOUNT)

\* C3 as stated: whenever the customer's available payments hold one within
\* tolerance of 100% and one within tolerance of 88%, the invoice is reported
\* with label "100%", whatever the order of the payments.
C3_Original ==
    [][(EnBucle /\ Hay100 /\ Hay88) =>
          /\ Len(resultados') > Len(resultados)
          /\ \A j \in (Len(resultados) + 1)..Len(resultados') :
                resultados'[j].Porcentaje = "100%"]_vars

\* C3 amended: with both kinds of payment available, the invoice is reported
\* with the first payment, in pool order, that passes either test, and with
\* that payment's label: "100%" if it passes the 100% test, "88%" otherwise.
C3_PrimeroGana ==
    [][(EnBucle /\ Hay100 /\ Hay88) =>
          LET pago == ListaActual[PrimeroQuePasa]
          IN  /\ Len(resultados') = Len(resultados) + 1
              /\ resultados'[Len(resultados')].Pago_TRX = pago.TRX_NUMBER
              /\ resultados'[Len(resultados')].Porcentaje =
                     IF Dentro100(pago.INV_AMOUNT, facturas[i].INV_AMOUNT)
                     THEN "100%" ELSE "88%"]_vars

\* C3 witness: an invoice reported at 100% by one payment while a payment of
\* its customer that passes the 88% test is still in the pool
C3_Witness ==
    /\ EnCurso
    /\ \E a \in 1..Len(resultados) :
          /\ resultados[a].Porcentaje = "100%"
          /\ Len(FilasDe(resultados[a].Factura_TRX)) = 1
          /\ \E k \in 1..Len(pagos_disponibles_df) :
                /\ pagos_disponibles_df[k].CUSTOMER_NAME = resultados[a].Cliente
                /\ Dentro88(pagos_disponibles_df[k].INV_AMOUNT, resultados[a].ValorFactura)

\* the invoices that have output rows
Emparejadas(res) == {res[j].Factura_TRX : j \in 1..Len(res)}

\* C6: re-ordering the invoices, the payments held fixed, changes which
\* invoices are matched.  Whenever a call on the re-ordered table of the
\* previous call has returned, and the table holds two invoices of one
\* customer with one amount and a single payment of that customer, which
\* passes a test, each call matched the invoice it met first and only that one.
C6_OrdenImporta ==
    ( /\ pc = "returned"
      /\ previa # <<>>
      /\ df = InvertirFacturas(previa[1].df)
      /\ Len(facturas) = 2
      /\ facturas[1].CUSTOMER_NAME = facturas[2].CUSTOMER_NAME
      /\ facturas[1].INV_AMOUNT = facturas[2].INV_AMOUNT
      /\ LET lista == pagos_lista(pagos, facturas[1].CUSTOMER_NAME)
         IN  /\ Len(lista) = 1
             /\ \/ Dentro100(lista[1].INV_AMOUNT, facturas[1].INV_AMOUNT)
                \/ Dentro88(lista[1].INV_AMOUNT, facturas[1].INV_AMOUNT) )
    => /\ Emparejadas(resultados) = {facturas[1].TRX_NUMBER}
       /\ Emparejadas(previa[1].resultados) = {facturas[2].TRX_NUMBER}
       /\ Emparejadas(resultados) # Emparejadas(previa[1].resultados)

\* C6 witness: a second call on the table with its invoices re-ordered has
\* returned with another set of matched invoices than the first call
C6_Witness ==
    /\ pc = "returned"
    /\ previa # <<>>
    /\ df # previa[1].df
    /\ df = InvertirFacturas(previa[1].df)
    /\ SepararPagos(df) = SepararPagos(previa[1].df)
    /\ Emparejadas(resultados) # Emparejadas(previa[1].resultados)

\* C7: a call leaves its table as it was, and a call on the table of the
\* previous call returns the rows the previous call returned.
C7_Determinista ==
    [][/\ ~(pc = "returned" /\ pc' = "core") => df' = df
       /\ (pc' = "returned" /\ previa' # <<>> /\ previa'[1].df = df') =>
              resultados' = previa'[1].resultados]_vars

\* C7 witness: the second call on the same table has returned rows
C7_Witness ==
    /\ pc = "returned"
    /\ previa # <<>>
    /\ previa[1].df = df
    /\ resultados # <<>>
    /\ pagos_disponibles_df # pagos

\* position in facturas of the invoice with TRX_NUMBER t
PosFactura(t) == CHOOSE k \in 1..Len(facturas) : facturas[k].TRX_NUMBER = t

\* position among the PMT rows of the payment with TRX_NUMBER t
PosPago(t) == CHOOSE k \in 1..Len(pagos) : pagos[k].TRX_NUMBER = t

\* C8: rows follow the order of their invoices in the input, so the rows of
\* one invoice are contiguous; the rows of one invoice follow the order of
\* their payments in the pool.
C8_OrdenDeEmision ==
    EnCurso =>
        \A a, b \in 1..Len(resultados) :
            a < b =>
                /\ PosFactura(resultados[a].Factura_TRX)
                       <= PosFactura(resultados[b].Factura_TRX)
                /\ ( /\ TrxUnicos(df)
                     /\ resultados[a].Factura_TRX = resultados[b].Factura_TRX )
                   => PosPago(resultados[a].Pago_TRX) < PosPago(resultados[b].Pago_TRX)

\* C8 witness: rows of two invoices, one of them settled by several payments
C8_Witness ==
    /\ pc = "returned"
    /\ TrxUnicos(df)
    /\ \E a, b, c \in 1..Len(resultados) :
          /\ a < b
          /\ resultados[a].Factura_TRX = resultados[b].Factura_TRX
          /\ resultados[c].Factura_TRX # resultados[a].Factura_TRX

\* the upload reached pd.read_excel and it returned a table
TablaLeida ==
    /\ solicitud.archivo
    /\ solicitud.filename \in {"datos.xlsx", "datos.xls"}
    /\ solicitud.lectura = "tabla"

\* C9: a table that lacks a required column is answered with 400, the missing
\* columns and the columns found, and the core is never entered for it; the
\* core is entered only with every required column present.
C9_ColumnasFaltantes ==
    /\ llamadas > 0 => required_columns \subseteq columnas
    /\ (TablaLeida /\ ~(required_columns \subseteq solicitud.columnas)) =>
          /\ llamadas = 0
          /\ pc = "fin" =>
                /\ respuesta.status = 400
                /\ respuesta.error = "formato"
                /\ respuesta.faltantes = required_columns \ solicitud.columnas
                /\ respuesta.columnas = solicitud.columnas

\* C9 witness: a table with rows and a missing column has been answered
C9_Witness ==
    /\ pc = "fin"
    /\ TablaLeida
    /\ df # <<>>
    /\ "CLASS" \in columnas
    /\ "TRX_NUMBER" \notin columnas
    /\ respuesta.status = 400
    /\ respuesta.faltantes # {}

\* C10 as stated: a table with every required column and no rows is answered
\* with status 400 and the empty-input message, the core never entered.
C10_TablaVacia ==
    ( /\ pc = "fin"
      /\ TablaLeida
      /\ required_columns \subseteq solicitud.columnas
      /\ solicitud.filas = <<>> )
    => /\ respuesta.status = 400
       /\ respuesta.error = "vacio"
       /\ llamadas = 0

\* the request failed in the try block, and not at the column check nor as an
\* empty input
FallaInesperada ==
    /\ excepcion.tipo \notin {"None", "EmptyDataError"}
    /\ excepcion.origen # "columnas"

\* C11 as stated: every failure of ingestion, of the core or of the writer that is
\* neither missing columns nor empty input is answered with status 500 and the
\* one generic message, which carries no text of the exception.  Violated: a
\* KeyError raised by the reader is answered 400 with the exception text.
C11_FallaOpaca ==
    (pc = "fin" /\ FallaInesperada) =>
        /\ respuesta.status = 500
        /\ respuesta.error = "inesperado"

\* C12: when a payment of the customer's available payments passes either
\* test, the iteration appends exactly one row, for the first such payment in
\* pool order, labelled "100%" if it passes the 100% test and "88%" otherwise;
\* the pool loses that payment's TRX_NUMBER and, TRX_NUMBER being unique per
\* record, exactly that payment; no combination is reported, whatever later
\* payment or combination would have matched at 100%.
C12_PrimerAjuste ==
    [][(EnBucle /\ (Hay100 \/ Hay88)) =>
          LET pago == ListaActual[PrimeroQuePasa]
          IN  /\ resultados' =
                     Append(resultados,
                            [Factura_TRX |-> facturas[i].TRX_NUMBER,
                             Cliente |-> facturas[i].CUSTOMER_NAME,
                             ValorFactura |-> facturas[i].INV_AMOUNT,
                             Pago_TRX |-> pago.TRX_NUMBER,
                             ValorPago |-> pago.INV_AMOUNT,
                             Porcentaje |->
                                 IF Dentro100(pago.INV_AMOUNT, facturas[i].INV_AMOUNT)
                                 THEN "100%" ELSE "88%"])
              /\ \A k \in 1..Len(pagos_disponibles_df') :
                     pagos_disponibles_df'[k].TRX_NUMBER # pago.TRX_NUMBER
              /\ TrxUnicos(df) =>
                     /\ Len(pagos_disponibles_df') = Len(pagos_disponibles_df) - 1
                     /\ pagos_disponibles_df' =
                            SelectSeq(pagos_disponibles_df, LAMBDA p : p # pago)]_vars

\* C12 witness: an invoice reported at 88% by a single payment while the pool
\* still holds a later payment of its customer that passes the 100% test and a
\* pair of payments whose sum passes it
C12_Witness ==
    /\ pc = "returned"
    /\ TrxUnicos(df)
    /\ \E a \in 1..Len(resultados) :
          LET lista == pagos_lista(pagos_disponibles_df, resultados[a].Cliente)
          IN  /\ resultados[a].Porcentaje = "88%"
              /\ Len(FilasDe(resultados[a].Factura_TRX)) = 1
              /\ \E k \in 1..Len(lista) :
                    /\ lista[k].TRX_NUMBER > resultados[a].Pago_TRX
                    /\ Dentro100(lista[k].INV_AMOUNT, resultados[a].ValorFactura)
              /\ \E S \in SUBSET (1..Len(lista)) :
                    /\ Cardinality(S) = 2
                    /\ Dentro100(SumaMontos(lista, S), resultados[a].ValorFactura)

\* the set of positions S comes before the set T in the search: it is smaller,
\* or of the same size and first in lexicographic order of the positions
AntesEnBusqueda(S, T) ==
    \/ Cardinality(S) < Cardinality(T)
    \/ /\ Cardinality(S) = Cardinality(T)
       /\ S # T
       /\ LET distintos == (S \ T) \cup (T \ S)
          IN  (CHOOSE x \in distintos : \A y \in distintos : x <= y) \in S

\* the sets of 2 to 5 positions of lista whose sum passes a test
CombinacionesValidas(lista, valor) ==
    {S \in SubconjuntosValidos(lista, valor, 5) : Cardinality(S) >= 2}

\* the rows that report the payments of lista at the positions S, in pool order
FilasDeCombinacion(factura, lista, S) ==
    LET pos == Ordenar(S)
    IN  [j \in 1..Len(pos) |->
            [Factura_TRX |-> factura.TRX_NUMBER,
             Cliente |-> factura.CUSTOMER_NAME,
             ValorFactura |-> factura.INV_AMOUNT,
             Pago_TRX |-> lista[pos[j]].TRX_NUMBER,
             ValorPago |-> lista[pos[j]].INV_AMOUNT,
             Porcentaje |-> IF Dentro100(SumaMontos(lista, S), factura.INV_AMOUNT)
                            THEN "100%" ELSE "88%"]]

\* C13: when no single payment passes a test and some set of 2 to 5 of the
\* customer's available payments does, the iteration reports the set that
\* comes first in the search (smaller size first, then lexicographic order of
\* pool positions), with label "100%" if its sum passes the 100% test and
\* "88%" otherwise, and reports nothing else.
C13_PrimeraCombinacion ==
    [][(/\ EnBucle
        /\ ~(Hay100 \/ Hay88)
        /\ CombinacionesValidas(ListaActual, facturas[i].INV_AMOUNT) # {}) =>
          \E S \in CombinacionesValidas(ListaActual, facturas[i].INV_AMOUNT) :
              /\ \A T \in CombinacionesValidas(ListaActual, facturas[i].INV_AMOUNT) :
                     ~AntesEnBusqueda(T, S)
              /\ resultados' =
                     resultados \o FilasDeCombinacion(facturas[i], ListaActual, S)]_vars

\* C13 witness: the only invoice of the table is reported at 88% by two
\* payments, although three of its customer's payments sum within tolerance
\* of 100% and so does a pair that comes later in the search
C13_Witness ==
    /\ pc = "returned"
    /\ Len(facturas) = 1
    /\ Len(resultados) = 2
    /\ resultados[1].Porcentaje = "88%"
    /\ LET lista == pagos_lista(pagos, facturas[1].CUSTOMER_NAME)
       IN  \E S, T \in SUBSET (1..Len(lista)) :
              /\ Cardinality(S) = 3
              /\ Dentro100(SumaMontos(lista, S), facturas[1].INV_AMOUNT)
              /\ Cardinality(T) = 2
              /\ Dentro100(SumaMontos(lista, T), facturas[1].INV_AMOUNT)

\* C14: an iteration appends no row if and only if no set of 1 to 5 of the
\* customer's available payments has a sum within 1.00 of the invoice amount
\* or of 0.88 times it; so it appends none when the customer has no available
\* payment, and an invoice has no rows at the end exactly when its iteration
\* found no such set.
C14_BusquedaCompleta ==
    [][EnBucle =>
          /\ (resultados' = resultados) <=>
                 (SubconjuntosValidos(ListaActual, facturas[i].INV_AMOUNT, 5) = {})
          /\ ListaActual = <<>> => resultados' = resultados
          /\ (resultados' = resultados) <=>
                 (SelectSeq(resultados',
                            LAMBDA f : f.Factura_TRX = facturas[i].TRX_NUMBER) = <<>>)]_vars

\* C14 witness: of two invoices of one amount the first is reported by five
\* payments, no smaller set passing a test, and the second is left without
\* rows although its customer still has payments in the pool
C14_Witness ==
    /\ pc = "returned"
    /\ Len(facturas) = 2
    /\ facturas[1].INV_AMOUNT = facturas[2].INV_AMOUNT
    /\ Len(FilasDe(facturas[1].TRX_NUMBER)) = 5
    /\ FilasDe(facturas[2].TRX_NUMBER) = <<>>
    /\ pagos_lista(pagos_disponibles_df, facturas[2].CUSTOMER_NAME) # <<>>
    /\ SubconjuntosValidos(pagos_lista(pagos, facturas[1].CUSTOMER_NAME),
                           facturas[1].INV_AMOUNT, 4) = {}

\* the sets of 1 to 5 positions of lista whose sum is exactly 1.00 above or
\* below the amount valor or 0.88 times it
SubconjuntosAlBorde(lista, valor) ==
    {S \in SUBSET (1..Len(lista)) :
        /\ Cardinality(S) \in 1..5
        /\ \/ SumaMontos(lista, S) - valor \in {-100, 100}
           \/ 100 * SumaMontos(lista, S) - 88 * valor \in {-10000, 10000}}

\* C15 as stated: the tolerance is 1.00 in absolute terms and inclusive, for a
\* single payment and for a sum alike: when a payment or a set of up to 5
\* payments of the customer lies exactly 1.00 from the invoice amount or from
\* 0.88 times it, the invoice is matched, and the payments an iteration
\* reports never sum further than 1.00 from the target their label names.
\* Violated: 7.80 against invoice 10.00 is rejected.
C15_ToleranciaInclusiva ==
    [][EnBucle =>
          /\ SubconjuntosAlBorde(ListaActual, facturas[i].INV_AMOUNT) # {} =>
                 resultados' # resultados
          /\ resultados' # resultados =>
                 LET nuevas == SubSeq(resultados', Len(resultados) + 1, Len(resultados'))
                 IN  IF nuevas[1].Porcentaje = "100%"
                     THEN Dentro100(SumaValorPago(nuevas), facturas[i].INV_AMOUNT)
                     ELSE Dentro88(SumaValorPago(nuevas), facturas[i].INV_AMOUNT)]_vars

\* C16: an iteration removes from the pool every record whose TRX_NUMBER is
\* the Pago_TRX of a row it appends, whatever the record's customer, and no
\* other record; the rows it appends name only the invoice's customer, so a
\* record of another customer that shares the TRX_NUMBER leaves the pool
\* without being reported.
C16_EliminacionGlobal ==
    [][EnBucle =>
          LET nuevas == SubSeq(resultados', Len(resultados) + 1, Len(resultados'))
          IN  /\ pagos_disponibles_df' =
                     SelectSeq(pagos_disponibles_df,
                               LAMBDA p : p.TRX_NUMBER \notin PagosUsados(nuevas))
              /\ \A j \in 1..Len(nuevas) :
                     nuevas[j].Cliente = facturas[i].CUSTOMER_NAME]_vars

\* C16 witness: an invoice left without rows although a payment of its
\* customer passes the 100% test; that payment is out of the pool because an
\* earlier invoice of another customer was settled by a payment with the same
\* TRX_NUMBER, and no row reports it
C16_Witness ==
    /\ pc = "returned"
    /\ \E k \in 1..Len(facturas) : \E a \in 1..Len(pagos) :
          /\ FilasDe(facturas[k].TRX_NUMBER) = <<>>
          /\ pagos[a].CUSTOMER_NAME = facturas[k].CUSTOMER_NAME
          /\ Dentro100(pagos[a].INV_AMOUNT, facturas[k].INV_AMOUNT)
          /\ \A j \in 1..Len(pagos_disponibles_df) :
                pagos_disponibles_df[j].TRX_NUMBER # pagos[a].TRX_NUMBER
          /\ \A j \in 1..Len(resultados) :
                /\ resultados[j].Cliente # pagos[a].CUSTOMER_NAME
                /\ resultados[j].Pago_TRX = pagos[a].TRX_NUMBER

\* the table without the rows whose CLASS is neither INV nor PMT
SoloFacturasYPagos(tabla) == SelectSeq(tabla, LAMBDA f : f.CLASS \in {"INV", "PMT"})

\* C17: every output row names an INV row and a PMT row of the table that
\* carry the row's Cliente as CUSTOMER_NAME, so an invoice is only settled by
\* payments of its own customer; and the rows returned are those returned for
\* the table without its rows of other classes.
C17_PorCliente ==
    /\ EnCurso =>
          \A j \in 1..Len(resultados) :
              /\ \E k \in 1..Len(df) :
                    /\ df[k].CLASS = "PMT"
                    /\ df[k].TRX_NUMBER = resultados[j].Pago_TRX
                    /\ df[k].CUSTOMER_NAME = resultados[j].Cliente
                    /\ df[k].INV_AMOUNT = resultados[j].ValorPago
              /\ \E k \in 1..Len(df) :
                    /\ df[k].CLASS = "INV"
                    /\ df[k].TRX_NUMBER = resultados[j].Factura_TRX
                    /\ df[k].CUSTOMER_NAME = resultados[j].Cliente
                    /\ df[k].INV_AMOUNT = resultados[j].ValorFactura
    /\ pc = "returned" =>
          resultados = procesar_archivos_excel(SoloFacturasYPagos(df))

\* C17 witness: an invoice left without rows although the pool holds a payment
\* of another customer that passes the 100% test and the table holds a row of
\* another class, of the invoice's customer, with the invoice's amount
C17_Witness ==
    /\ pc = "returned"
    /\ \E k \in 1..Len(facturas) :
          /\ FilasDe(facturas[k].TRX_NUMBER) = <<>>
          /\ \E j \in 1..Len(pagos_disponibles_df) :
                /\ pagos_disponibles_df[j].CUSTOMER_NAME # facturas[k].CUSTOMER_NAME
                /\ Dentro100(pagos_disponibles_df[j].INV_AMOUNT, facturas[k].INV_AMOUNT)
          /\ \E j \in 1..Len(df) :
                /\ df[j].CLASS \notin {"INV", "PMT"}
                /\ df[j].CUSTOMER_NAME = facturas[k].CUSTOMER_NAME
                /\ df[j].INV_AMOUNT = facturas[k].INV_AMOUNT

\* position in the table of the PMT row with TRX_NUMBER t
PosEnTabla(t) ==
    CHOOSE k \in 1..Len(df) : df[k].CLASS = "PMT" /\ df[k].TRX_NUMBER = t

\* the sets of table positions of 2 to 5 available payments of the customer of
\* the invoice in turn whose amounts sum within tolerance of a target
ConjuntosValidosEnTabla ==
    {D \in SUBSET {PosEnTabla(ListaActual[k].TRX_NUMBER) : k \in 1..Len(ListaActual)} :
        /\ Cardinality(D) \in 2..5
        /\ \/ Dentro100(SumaMontos(df, D), facturas[i].INV_AMOUNT)
           \/ Dentro88(SumaMontos(df, D), facturas[i].INV_AMOUNT)}

\* C18: the pool is at every moment the PMT rows of the table, in the order of
\* the table, with some rows taken out; and, TRX_NUMBER being unique, what an
\* iteration reports is decided by the order of the table: of the available
\* payments that pass a test the one that comes first in the table, and
\* otherwise, of the sets that pass, the one that comes first when the payments
\* are numbered by their position in the table.
C18_OrdenDeEntrada ==
    [][/\ EnCurso' =>
              EsSubsecuencia(pagos_disponibles_df',
                             SelectSeq(df, LAMBDA f : f.CLASS = "PMT"))
       /\ (EnBucle /\ TrxUnicos(df) /\ resultados' # resultados) =>
              LET nuevas == SubSeq(resultados', Len(resultados) + 1, Len(resultados'))
                  ganan  == {PosEnTabla(nuevas[j].Pago_TRX) : j \in 1..Len(nuevas)}
              IN  IF Hay100 \/ Hay88
                  THEN \A k \in 1..Len(ListaActual) :
                          ( \/ Dentro100(ListaActual[k].INV_AMOUNT, facturas[i].INV_AMOUNT)
                            \/ Dentro88(ListaActual[k].INV_AMOUNT, facturas[i].INV_AMOUNT) )
                          => \A g \in ganan :
                                 g <= PosEnTabla(ListaActual[k].TRX_NUMBER)
                  ELSE \A D \in ConjuntosValidosEnTabla : ~AntesEnBusqueda(D, ganan)]_vars

\* C18 witness: a payment reported for a later invoice stands in the table
\* before a payment an earlier invoice consumed, and after both stands a
\* payment of the same customer and the same amount that is still in the pool
C18_Witness ==
    /\ pc = "returned"
    /\ TrxUnicos(df)
    /\ \E a, b \in 1..Len(resultados) : \E q \in 1..Len(pagos_disponibles_df) :
          /\ a < b
          /\ resultados[a].Factura_TRX # resultados[b].Factura_TRX
          /\ PosEnTabla(resultados[b].Pago_TRX) < PosEnTabla(resultados[a].Pago_TRX)
          /\ PosEnTabla(resultados[a].Pago_TRX)
                 < PosEnTabla(pagos_disponibles_df[q].TRX_NUMBER)
          /\ pagos_disponibles_df[q].CUSTOMER_NAME = resultados[b].Cliente
          /\ pagos_disponibles_df[q].INV_AMOUNT = resultados[b].ValorPago

====
